---- MODULE Spec2Model ----
(***************************************************************************)
(* Rectangle-rule integration: the sequential integrator `integrate`       *)
(* (integrate.py) and its two parallel dispatchers, `integrate_threaded`   *)
(* (integrate_threads.py) and `integrate_processes`                        *)
(* (integrate_processes.py).                                               *)
(*                                                                         *)
(* Arithmetic is exact: a real number is a reduced fraction <<num, den>>   *)
(* with den > 0.  Rounding of Python floats is outside the model.          *)
(*                                                                         *)
(* A driver calls the three entry points one after another on the same     *)
(* arguments (as the __main__ blocks do with integrate and one parallel    *)
(* variant) and records each call's outcome.                               *)
(***************************************************************************)
EXTENDS Integers, Sequences, FiniteSets, TLC

\* ------------------------------------------------------------------ bounds

\* interval bounds a, b range over 0 .. MaxArg
MaxArg == 2
\* n_iter ranges over -1 .. MaxIter
MaxIter == 6
\* n_jobs ranges over -1 .. MaxJobs
MaxJobs == 3

\* ------------------------------------------------- exact rational numbers

\* Every operator below binds each argument to its value once (p \in {x}),
\* so that a nested expression is evaluated once, not once per use.

Abs(x) == IF x < 0 THEN -x ELSE x

RECURSIVE GCD(_, _)
GCD(m, n) ==
    CHOOSE r \in {IF q = 0 THEN p ELSE GCD(q, p % q) : p \in {m}, q \in {n}} :
        TRUE

\* the reduced fraction n/d, d # 0
Frac(n, d) ==
    CHOOSE r \in {<<(s * p) \div g, (s * q) \div g>> :
                     p \in {n}, q \in {d},
                     g \in {GCD(Abs(n), Abs(d))},
                     s \in {IF d < 0 THEN -1 ELSE 1}} : TRUE

Rat(n) == <<n, 1>>
RAdd(x, y) ==
    CHOOSE r \in {Frac(p[1] * q[2] + q[1] * p[2], p[2] * q[2]) :
                     p \in {x}, q \in {y}} : TRUE
RSub(x, y) ==
    CHOOSE r \in {Frac(p[1] * q[2] - q[1] * p[2], p[2] * q[2]) :
                     p \in {x}, q \in {y}} : TRUE
RMul(x, y) ==
    CHOOSE r \in {Frac(p[1] * q[1], p[2] * q[2]) : p \in {x}, q \in {y}} : TRUE
\* x / y, y # 0
RDiv(x, y) ==
    CHOOSE r \in {Frac(p[1] * q[2], p[2] * q[1]) : p \in {x}, q \in {y}} : TRUE
RGeq(x, y) ==
    \E p \in {x}, q \in {y} : p[1] * q[2] >= q[1] * p[2]

\* Python's // on integers (floor division), y # 0
FloorDiv(x, y) ==
    LET q == Abs(x) \div Abs(y)
        exact == Abs(x) % Abs(y) = 0
    IN  IF (x < 0) = (y < 0) THEN q
        ELSE IF exact THEN -q ELSE -q - 1

\* ------------------------------------------------------------- exceptions

NoExc == [type |-> "none", site |-> "none"]
Exc(t, s) == [type |-> t, site |-> s]

\* -------------------------------------------------------------- integrands

\* the callables the driver passes as f:
\*   "one"   lambda x: 1
\*   "id"    lambda x: x
\*   "recip" lambda x: 1 / x      (raises ZeroDivisionError at x = 0)
Integrands == {"one", "id", "recip"}

FRaises(g, x) == g = "recip" /\ x[1] = 0

FValue(g, x) ==
    CASE g = "one" -> Rat(1)
      [] g = "id" -> x
      [] g = "recip" -> RDiv(Rat(1), x)

\* ------------------------------------------------- integrate (integrate.py)

\* The activation record of one call integrate(g, lo, hi, n_iter = n).
\*   st: "pending" not started, "running" in the loop, "returned", "raised"
NewFrame(lo, hi, n) ==
    [lo |-> lo, hi |-> hi, n |-> n, st |-> "pending", i |-> 0,
     acc |-> Rat(0), step |-> Rat(0), exc |-> NoExc, samples |-> <<>>]

\* (variant: only a negative step count is rejected)
BadIterStrict(n) == n < 0

\* line 34: the step count is rejected
BadIter(n) == n <= 0

\* (variant: the empty interval a = b is let through)
BadIntervalStrict(lo, hi) == RGeq(lo, hi) /\ lo # hi

\* line 36: the interval is rejected
BadInterval(lo, hi) == RGeq(lo, hi)

\* lines 34-40: the precondition checks, then acc and step
\* (the division of line 40 raises when n_iter = 0; line 34 excludes it)
IntegrateEnter(fr) ==
    IF BadIter(fr.n)
    THEN [fr EXCEPT !.st = "raised", !.exc = Exc("ValueError", "integrate:35")]
    ELSE IF BadInterval(fr.lo, fr.hi)
    THEN [fr EXCEPT !.st = "raised", !.exc = Exc("ValueError", "integrate:37")]
    ELSE IF fr.n = 0
    THEN [fr EXCEPT !.st = "raised",
                    !.exc = Exc("ZeroDivisionError", "integrate:40")]
    ELSE [fr EXCEPT !.st = "running", !.acc = Rat(0),
                    !.step = RDiv(RSub(fr.hi, fr.lo), Rat(fr.n))]

\* (variant: the sample is taken at the midpoint of the sub-interval)
IntegrateIterMidpoint(g, fr) ==
    LET x == RAdd(fr.lo, RMul(Frac(2 * fr.i + 1, 2), fr.step))
    IN  IF FRaises(g, x)
        THEN [fr EXCEPT !.st = "raised",
                        !.exc = Exc("ZeroDivisionError", "f"),
                        !.samples = Append(fr.samples, x)]
        ELSE [fr EXCEPT !.acc = RAdd(fr.acc, RMul(FValue(g, x), fr.step)),
                        !.i = fr.i + 1,
                        !.samples = Append(fr.samples, x),
                        !.st = IF fr.i + 1 >= fr.n THEN "returned" ELSE "running"]

\* lines 41-43: one iteration of the loop; after the last one, return acc.
\* samples lists the points at which f has been called.
IntegrateIter(g, fr) ==
    LET x == RAdd(fr.lo, RMul(Rat(fr.i), fr.step))
    IN  IF FRaises(g, x)
        THEN [fr EXCEPT !.st = "raised",
                        !.exc = Exc("ZeroDivisionError", "f"),
                        !.samples = Append(fr.samples, x)]
        ELSE [fr EXCEPT !.acc = RAdd(fr.acc, RMul(FValue(g, x), fr.step)),
                        !.i = fr.i + 1,
                        !.samples = Append(fr.samples, x),
                        !.st = IF fr.i + 1 >= fr.n THEN "returned" ELSE "running"]

\* the next step of a call that has not finished
IntegrateStep(g, fr) ==
    IF fr.st = "pending" THEN IntegrateEnter(fr) ELSE IntegrateIter(g, fr)

Finished(fr) == fr.st \in {"returned", "raised"}

\* ------------------------------------------------------------------ state

VARIABLES
    f, a, b, n_iter, n_jobs,  \* the arguments of the calls
    callee,         \* the entry point being called, "none" before the first
    pc,             \* the position of the calling thread
    frame,          \* the activation of a direct call of integrate
    step,           \* dispatcher local: width of a sub-interval
    iter_per_job,   \* dispatcher local: n_iter // n_jobs
    executor,       \* the pool: "none", "open", "shutdown"
    futures,        \* the submitted tasks, task i at index i + 1
    yielded,        \* indices of the futures as_completed has handed out
    total,          \* the running sum of sum(...)
    result,         \* the value or exception leaving the with block
    outcome         \* per entry point, how its call ended

vars == <<f, a, b, n_iter, n_jobs, callee, pc, frame, step, iter_per_job,
          executor, futures, yielded, total, result, outcome>>

args == <<f, a, b, n_iter, n_jobs>>

EntryPoints == <<"integrate", "integrate_threaded", "integrate_processes">>
Parallel == {"integrate_threaded", "integrate_processes"}

NoOutcome == [kind |-> "none", val |-> Rat(0), exc |-> NoExc]
Returned(v) == [kind |-> "value", val |-> v, exc |-> NoExc]
Raised(e) == [kind |-> "error", val |-> Rat(0), exc |-> e]

\* the entry point the driver calls next, "none" after the last
NextCallee ==
    CASE callee = "none" -> "integrate"
      [] callee = "integrate" -> "integrate_threaded"
      [] callee = "integrate_threaded" -> "integrate_processes"
      [] OTHER -> "none"

Init ==
    /\ f \in Integrands
    /\ a \in 0 .. MaxArg
    /\ b \in 0 .. MaxArg
    /\ n_iter \in -1 .. MaxIter
    /\ n_jobs \in -1 .. MaxJobs
    /\ callee = "none"
    /\ pc = "idle"
    /\ frame = NewFrame(Rat(0), Rat(0), 0)
    /\ step = Rat(0)
    /\ iter_per_job = 0
    /\ executor = "none"
    /\ futures = <<>>
    /\ yielded = {}
    /\ total = Rat(0)
    /\ result = NoOutcome
    /\ outcome = [v \in {"integrate"} \cup Parallel |-> NoOutcome]

\* the caller gets the call's result: a value or an exception
Finish(o) ==
    /\ pc' = "returned"
    /\ outcome' = [outcome EXCEPT ![callee] = o]

\* The driver enters the next entry point; every local of the call is fresh.
Call ==
    /\ pc \in {"idle", "returned"}
    /\ NextCallee # "none"
    /\ callee' = NextCallee
    /\ pc' = CASE NextCallee = "integrate" -> "integrate"
              [] NextCallee = "integrate_threaded" -> "partition"
              [] NextCallee = "integrate_processes" -> "validate"
    /\ frame' = NewFrame(Rat(a), Rat(b), n_iter)
    /\ step' = Rat(0)
    /\ iter_per_job' = 0
    /\ executor' = "none"
    /\ futures' = <<>>
    /\ yielded' = {}
    /\ total' = Rat(0)
    /\ result' = NoOutcome
    /\ UNCHANGED <<args, outcome>>

\* integrate.py 34-43, called directly: one step of the call
Integrate ==
    /\ pc = "integrate"
    /\ LET fr == IntegrateStep(f, frame)
       IN  /\ frame' = fr
           /\ IF fr.st = "returned" THEN Finish(Returned(fr.acc))
              ELSE IF fr.st = "raised" THEN Finish(Raised(fr.exc))
              ELSE UNCHANGED <<pc, outcome>>
    /\ UNCHANGED <<args, callee, step, iter_per_job, executor, futures,
                   yielded, total, result>>

\* ------------------------- the dispatchers (integrate_threads.py,
\* ------------------------------------------ integrate_processes.py)

\* integrate_processes.py 23-26: the argument checks of the process variant
Validate ==
    /\ pc = "validate"
    /\ IF n_jobs <= 0
       THEN Finish(Raised(Exc("ValueError", "integrate_processes:24")))
       ELSE IF n_iter <= 0
       THEN Finish(Raised(Exc("ValueError", "integrate_processes:26")))
       ELSE pc' = "partition" /\ UNCHANGED outcome
    /\ UNCHANGED <<args, callee, frame, step, iter_per_job, executor, futures,
                   yielded, total, result>>

\* (variant: the width is taken as |b - a|)
JobStepAbs(lo, hi, jobs) == RDiv(Rat(Abs(hi - lo)), Rat(jobs))

\* step = (b - a) / n_jobs, n_jobs # 0
JobStep(lo, hi, jobs) == RDiv(RSub(Rat(hi), Rat(lo)), Rat(jobs))

\* (variant: the quotient is rounded up)
IterPerJobCeil(iters, jobs) == -FloorDiv(-iters, jobs)

\* iter_per_job = n_iter // n_jobs, n_jobs # 0
IterPerJob(iters, jobs) == FloorDiv(iters, jobs)

\* integrate_threads.py 20-21, integrate_processes.py 28-29;
\* the division of the first line raises when n_jobs = 0
Partition ==
    /\ pc = "partition"
    /\ IF n_jobs = 0
       THEN /\ Finish(Raised(Exc("ZeroDivisionError", "step")))
            /\ UNCHANGED <<step, iter_per_job>>
       ELSE /\ step' = JobStep(a, b, n_jobs)
            /\ iter_per_job' = IterPerJob(n_iter, n_jobs)
            /\ pc' = "pool"
            /\ UNCHANGED outcome
    /\ UNCHANGED <<args, callee, frame, executor, futures, yielded, total,
                   result>>

\* integrate_threads.py 23, integrate_processes.py 31: the executor is
\* constructed; the constructor rejects max_workers <= 0 with ValueError
CreatePool ==
    /\ pc = "pool"
    /\ IF n_jobs <= 0
       THEN /\ Finish(Raised(Exc("ValueError", "max_workers")))
            /\ UNCHANGED executor
       ELSE /\ executor' = "open"
            /\ pc' = "submit"
            /\ UNCHANGED outcome
    /\ UNCHANGED <<args, callee, frame, step, iter_per_job, futures, yielded,
                   total, result>>

\* (variants: the offset a is forgotten)
SubLoNoOffset(lo, i, w) == RMul(Rat(i), w)
SubHiNoOffset(lo, i, w) == RMul(Rat(i + 1), w)

\* the bounds of sub-interval i: a + i * step and a + (i + 1) * step
SubLo(lo, i, w) == RAdd(Rat(lo), RMul(Rat(i), w))
SubHi(lo, i, w) == RAdd(Rat(lo), RMul(Rat(i + 1), w))

\* integrate_threads.py 24-33, integrate_processes.py 32-41: the list
\* comprehension submits the task of the next i in range(n_jobs)
Submit ==
    /\ pc = "submit"
    /\ LET i == Len(futures)
       IN  /\ futures' = Append(futures,
                  NewFrame(SubLo(a, i, step), SubHi(a, i, step), iter_per_job))
           /\ pc' = IF i + 1 >= n_jobs THEN "collect" ELSE "submit"
    /\ UNCHANGED <<args, callee, frame, step, iter_per_job, executor, yielded,
                   total, result, outcome>>

\* a worker of the pool runs one step of the task it took; the pool has
\* n_jobs workers, so no submitted task waits for a free one
Worker(k) ==
    /\ executor = "open"
    /\ k \in 1 .. Len(futures)
    /\ ~Finished(futures[k])
    /\ futures' = [futures EXCEPT ![k] = IntegrateStep(f, @)]
    /\ UNCHANGED <<args, callee, pc, frame, step, iter_per_job, executor,
                   yielded, total, result, outcome>>

\* (variant: the exception of a failed future is swallowed)
CollectSwallow ==
    /\ pc = "collect"
    /\ \E k \in (1 .. Len(futures)) \ yielded :
          /\ Finished(futures[k])
          /\ total' = IF futures[k].st = "raised" THEN total
                      ELSE RAdd(total, futures[k].acc)
          /\ yielded' = yielded \cup {k}
          /\ IF yielded' = 1 .. Len(futures)
             THEN result' = Returned(total') /\ pc' = "exit"
             ELSE UNCHANGED <<result, pc>>
    /\ UNCHANGED <<args, callee, frame, step, iter_per_job, executor, futures,
                   outcome>>

\* (variant: only the futures already finished are summed, none is awaited)
CollectDoneOnly ==
    /\ pc = "collect"
    /\ LET done == {k \in 1 .. Len(futures) : Finished(futures[k])}
       IN  IF done \subseteq yielded
           THEN /\ result' = Returned(total)
                /\ pc' = "exit"
                /\ UNCHANGED <<yielded, total>>
           ELSE \E k \in done \ yielded :
                  IF futures[k].st = "raised"
                  THEN /\ result' = Raised(futures[k].exc)
                       /\ pc' = "exit"
                       /\ UNCHANGED <<yielded, total>>
                  ELSE /\ total' = RAdd(total, futures[k].acc)
                       /\ yielded' = yielded \cup {k}
                       /\ UNCHANGED <<result, pc>>
    /\ UNCHANGED <<args, callee, frame, step, iter_per_job, executor, futures,
                   outcome>>

\* integrate_threads.py 35, integrate_processes.py 43: as_completed hands
\* out a finished future not handed out before, result() returns its value
\* or raises its exception, sum adds the value; after the last future the
\* sum is the return value
Collect ==
    /\ pc = "collect"
    /\ \E k \in (1 .. Len(futures)) \ yielded :
          /\ Finished(futures[k])
          /\ IF futures[k].st = "raised"
             THEN /\ result' = Raised(futures[k].exc)
                  /\ pc' = "exit"
                  /\ UNCHANGED <<yielded, total>>
             ELSE /\ total' = RAdd(total, futures[k].acc)
                  /\ yielded' = yielded \cup {k}
                  /\ IF yielded' = 1 .. Len(futures)
                     THEN result' = Returned(total') /\ pc' = "exit"
                     ELSE UNCHANGED <<result, pc>>
    /\ UNCHANGED <<args, callee, frame, step, iter_per_job, executor, futures,
                   outcome>>

\* (variant: shutdown(wait=False), the call leaves without waiting)
ExitNoWait ==
    /\ pc = "exit"
    /\ executor' = "shutdown"
    /\ Finish(result)
    /\ UNCHANGED <<args, callee, frame, step, iter_per_job, futures, yielded,
                   total, result>>

\* the end of the with block: shutdown(wait=True) returns once every
\* submitted task has finished, then the value or exception leaves the call
Exit ==
    /\ pc = "exit"
    /\ \A k \in 1 .. Len(futures) : Finished(futures[k])
    /\ executor' = "shutdown"
    /\ Finish(result)
    /\ UNCHANGED <<args, callee, frame, step, iter_per_job, futures, yielded,
                   total, result>>

Next ==
    \/ Call
    \/ Integrate
    \/ Validate
    \/ Partition
    \/ CreatePool
    \/ Submit
    \/ \E k \in 1 .. Len(futures) : Worker(k)
    \/ Collect
    \/ Exit

Spec == Init /\ [][Next]_vars

\* the steps of the thread that called a dispatcher
DispatcherStep ==
    Validate \/ Partition \/ CreatePool \/ Submit \/ Collect \/ Exit

\* The calling thread and every worker of the pool keep running: a step
\* that stays possible is taken.  Neither dispatcher has a timeout, so a
\* task that stops for ever is a behaviour of Spec, not of FairSpec.
FairSpec ==
    /\ Spec
    /\ WF_vars(DispatcherStep)
    /\ \A k \in 1 .. MaxJobs : WF_vars(Worker(k))

\* ------------------------------------------------------------- properties

InParallel == callee \in Parallel
Tasks == 1 .. Len(futures)

\* how often the integrand has been called by the tasks of this dispatch
RECURSIVE TaskEvals(_)
TaskEvals(k) == IF k = 0 THEN 0 ELSE Len(futures[k].samples) + TaskEvals(k - 1)

\* the sum of the partial results of the tasks in S
RECURSIVE SumOf(_)
SumOf(S) ==
    IF S = {} THEN Rat(0)
    ELSE LET k == CHOOSE j \in S : TRUE
         IN  RAdd(futures[k].acc, SumOf(S \ {k}))

ValueErrorRaised(v) ==
    outcome[v].kind = "error" /\ outcome[v].exc.type = "ValueError"

\* C1: integrate with n_iter <= 0 or a >= b never calls the integrand,
\* never returns a value, and ends with ValueError.
C1_InvalidArgumentsRaise ==
    (callee = "integrate" /\ (n_iter <= 0 \/ a >= b)) =>
        /\ frame.samples = <<>>
        /\ frame.st # "returned"
        /\ pc = "returned" => ValueErrorRaised("integrate")

C1_Witness ==
    /\ callee = "integrate" /\ pc = "returned"
    /\ a = b /\ n_iter > 0
    /\ ValueErrorRaised("integrate")

\* C2: with n_jobs <= 0 both parallel variants end with ValueError, with
\* no pool created, no task submitted and the integrand never called.
C2_BadJobCountRaisesValueError ==
    (InParallel /\ n_jobs <= 0) =>
        /\ executor = "none"
        /\ futures = <<>>
        /\ pc = "returned" => ValueErrorRaised(callee)

\* C3: on valid arguments (a < b, n_iter > 0, n_jobs > 0, an integrand
\* defined everywhere) a parallel variant returns a value, the sum of the
\* sequential results on the sub-intervals, never an error.
C3_ValidInputsReturn ==
    (InParallel /\ pc = "returned" /\ a < b /\ n_iter > 0 /\ n_jobs > 0
        /\ f # "recip") =>
        /\ outcome[callee].kind = "value"
        /\ outcome[callee].val = SumOf(Tasks)
        /\ f = "one" => outcome[callee].val = outcome["integrate"].val

\* C4: with n_iter <= 0 (n_jobs > 0, a < b) both parallel variants end
\* with ValueError, never with a value, and never call the integrand.
C4_BadIterCountRaises ==
    (InParallel /\ n_iter <= 0 /\ n_jobs > 0 /\ a < b) =>
        /\ TaskEvals(Len(futures)) = 0
        /\ result.kind # "value"
        /\ pc = "returned" => ValueErrorRaised(callee)

C4_Witness ==
    /\ callee = "integrate_threaded" /\ pc = "returned"
    /\ n_iter <= 0 /\ n_jobs > 1 /\ a < b
    /\ ValueErrorRaised(callee)
    /\ Len(futures) = n_jobs

\* C5: when the task of some sub-interval has failed, the dispatcher call
\* ends with the exception of a failed task and returns no value, whatever
\* the other tasks computed.
C5_WorkerFailurePropagates ==
    (InParallel /\ pc = "returned"
        /\ \E k \in Tasks : futures[k].st = "raised") =>
        /\ outcome[callee].kind = "error"
        /\ \E k \in Tasks : /\ futures[k].st = "raised"
                            /\ outcome[callee].exc = futures[k].exc

C5_Witness ==
    /\ InParallel /\ pc = "returned"
    /\ \E k \in Tasks : futures[k].st = "raised"
    /\ \E k \in Tasks : futures[k].st = "returned" /\ futures[k].acc # Rat(0)
    /\ outcome[callee].kind = "error"

\* C6: with n_jobs = 1 and valid arguments a parallel variant submits one
\* task, over [a, b] with n_iter steps, and ends as integrate(f, a, b,
\* n_iter) ends: with the same value or the same exception.
C6_OneJobIsSequential ==
    (InParallel /\ n_jobs = 1 /\ a < b /\ n_iter > 0) =>
        /\ Len(futures) <= 1
        /\ \A k \in Tasks : /\ futures[k].lo = Rat(a)
                            /\ futures[k].hi = Rat(b)
                            /\ futures[k].n = n_iter
        /\ pc = "returned" =>
              /\ Len(futures) = 1
              /\ outcome[callee] = outcome["integrate"]
              /\ futures[1].st = "returned" =>
                    outcome[callee] = Returned(futures[1].acc)

C6_Witness ==
    /\ InParallel /\ pc = "returned"
    /\ n_jobs = 1 /\ a > 0 /\ a < b /\ n_iter > 1 /\ f = "id"
    /\ outcome[callee].kind = "value"
    /\ outcome[callee] = outcome["integrate"]

\* the tasks submitted so far are those of the indices 0, 1, ... in order,
\* task i over [a + i*(b - a)/n_jobs, a + (i + 1)*(b - a)/n_jobs]
PartitionShape ==
    /\ Len(futures) <= n_jobs
    /\ \A k \in Tasks :
          /\ RMul(futures[k].lo, Rat(n_jobs)) = Rat(a * n_jobs + (k - 1) * (b - a))
          /\ RMul(futures[k].hi, Rat(n_jobs)) = Rat(a * n_jobs + k * (b - a))
          /\ k < Len(futures) => futures[k].hi = futures[k + 1].lo
          /\ \A j \in Tasks : j # k => futures[j].lo # futures[k].lo
    /\ futures # <<>> => futures[1].lo = Rat(a)
    /\ Len(futures) = n_jobs => futures[n_jobs].hi = Rat(b)

\* C7 (as stated): for every a < b and n_jobs > 0 a parallel variant
\* submits exactly n_jobs tasks, task i over its sub-interval, contiguous,
\* from a to b.
C7_AlwaysSubmitsAllJobs ==
    (InParallel /\ a < b /\ n_jobs > 0) =>
        /\ PartitionShape
        /\ pc \in {"collect", "exit", "returned"} => Len(futures) = n_jobs

\* C7 (amended): the same, for integrate_threaded with any n_iter and for
\* integrate_processes with n_iter > 0.
C7_SubmitsAllJobs ==
    (InParallel /\ a < b /\ n_jobs > 0
        /\ (callee = "integrate_processes" => n_iter > 0)) =>
        /\ PartitionShape
        /\ pc \in {"collect", "exit", "returned"} => Len(futures) = n_jobs

C7_Witness ==
    /\ callee = "integrate_processes" /\ pc = "returned"
    /\ a > 0 /\ a < b /\ n_jobs = 3 /\ n_iter > 0
    /\ Len(futures) = 3
    /\ futures[3].hi = Rat(b)

\* C8: when every task has succeeded, each partial result has been added
\* exactly once and the call returns their sum, in every completion order.
C8_SumOfAllPartials ==
    InParallel =>
        /\ total = SumOf(yielded)
        /\ \A k \in yielded : k \in Tasks /\ futures[k].st = "returned"
        /\ (pc = "returned" /\ futures # <<>>
              /\ \A k \in Tasks : futures[k].st = "returned") =>
              /\ yielded = 1 .. n_jobs
              /\ outcome[callee] = Returned(SumOf(1 .. n_jobs))

C8_Witness ==
    /\ InParallel /\ pc = "returned"
    /\ n_jobs = 3 /\ f = "id"
    /\ \A k \in Tasks : futures[k].st = "returned"
    /\ yielded = 1 .. 3
    /\ outcome[callee] = Returned(SumOf(1 .. 3))
    /\ outcome[callee].val # Rat(0)

\* C9: a dispatcher call that created a pool and has returned, with a
\* value or an exception, has shut the pool down with no task of it left
\* unfinished; a call starts without a pool and without tasks.
C9_PoolTornDown ==
    /\ (InParallel /\ pc = "returned" /\ executor # "none") =>
          /\ executor = "shutdown"
          /\ \A k \in Tasks : Finished(futures[k])
    /\ pc \in {"validate", "partition", "pool"} =>
          executor = "none" /\ futures = <<>>
    /\ pc \in {"idle", "integrate"} => executor = "none"

C9_Witness ==
    /\ InParallel /\ pc = "returned"
    /\ outcome[callee].kind = "error"
    /\ executor = "shutdown"
    /\ Len(futures) > 1
    /\ yielded # {}
    /\ \A k \in Tasks : Finished(futures[k])

\* C10: on the same arguments integrate_threaded and integrate_processes
\* end alike: both with a value or both with the same kind of exception.
C10_SameOutcomeClass ==
    (outcome["integrate_threaded"].kind # "none"
        /\ outcome["integrate_processes"].kind # "none") =>
        /\ outcome["integrate_threaded"].kind = outcome["integrate_processes"].kind
        /\ outcome["integrate_threaded"].exc.type
              = outcome["integrate_processes"].exc.type

\* C11: on valid arguments with n_iter >= n_jobs every task gets
\* n_iter // n_jobs samples; a call that returns a value has called the
\* integrand n_jobs * (n_iter // n_jobs) times, n_iter mod n_jobs fewer
\* than n_iter: between 0 and n_jobs - 1, and 0 exactly when n_jobs
\* divides n_iter.
C11_SamplesPerJob ==
    (InParallel /\ a < b /\ n_jobs > 0 /\ n_iter >= n_jobs) =>
        /\ \A k \in Tasks :
              /\ futures[k].n * n_jobs <= n_iter
              /\ n_iter < (futures[k].n + 1) * n_jobs
              /\ Len(futures[k].samples) <= futures[k].n
              /\ futures[k].st = "returned" =>
                    Len(futures[k].samples) = futures[k].n
        /\ (pc = "returned" /\ outcome[callee].kind = "value") =>
              LET evals == TaskEvals(Len(futures))
                  dropped == n_iter - evals
              IN  /\ evals = n_jobs * (n_iter \div n_jobs)
                  /\ dropped = n_iter % n_jobs
                  /\ dropped \in 0 .. n_jobs - 1
                  /\ (dropped = 0) <=> (\E q \in 1 .. n_iter : q * n_jobs = n_iter)

C11_Witness ==
    /\ InParallel /\ pc = "returned"
    /\ a < b /\ n_jobs = 3 /\ n_iter = 5
    /\ outcome[callee].kind = "value"
    /\ TaskEvals(Len(futures)) = 3

\* the sum of f(x) * (b - a)/n_iter over the first m sample points of frame
RECURSIVE RectangleSum(_)
RectangleSum(m) ==
    IF m = 0 THEN Rat(0)
    ELSE RAdd(RectangleSum(m - 1),
              RMul(FValue(f, frame.samples[m]), Frac(b - a, n_iter)))

\* C12: on valid arguments integrate calls the integrand at the left
\* endpoints a + i*(b - a)/n_iter, i = 0, 1, ... in increasing order, the
\* first at a, none at b; the accumulator is the sum of f(x)*step over the
\* iterations done, and a call that returns has done n_iter of them and
\* returns the accumulator.
C12_LeftEndpointSamples ==
    (callee = "integrate" /\ a < b /\ n_iter > 0) =>
        /\ Len(frame.samples) <= n_iter
        /\ \A j \in 1 .. Len(frame.samples) :
              /\ RMul(frame.samples[j], Rat(n_iter))
                    = Rat(a * n_iter + (j - 1) * (b - a))
              /\ ~RGeq(frame.samples[j], Rat(b))
              /\ j > 1 => ~RGeq(frame.samples[j - 1], frame.samples[j])
        /\ frame.samples # <<>> => frame.samples[1] = Rat(a)
        /\ frame.i <= Len(frame.samples)
        /\ frame.acc = RectangleSum(frame.i)
        /\ frame.st = "returned" =>
              /\ frame.i = n_iter
              /\ Len(frame.samples) = n_iter
              /\ pc = "returned"
              /\ outcome["integrate"] = Returned(RectangleSum(n_iter))

C12_Witness ==
    /\ callee = "integrate" /\ pc = "returned"
    /\ f = "id" /\ a > 0 /\ a < b /\ n_iter >= 3
    /\ Len(frame.samples) = n_iter
    /\ outcome["integrate"] = Returned(frame.acc)

\* C13: with a >= b (n_jobs > 0, n_iter > 0) both parallel variants end
\* with the ValueError of a task's precondition check, never with a value,
\* and no task calls the integrand.
C13_BadIntervalRaises ==
    (InParallel /\ a >= b /\ n_jobs > 0 /\ n_iter > 0) =>
        /\ TaskEvals(Len(futures)) = 0
        /\ \A k \in Tasks : futures[k].st \in {"pending", "raised"}
        /\ result.kind # "value"
        /\ pc = "returned" =>
              /\ ValueErrorRaised(callee)
              /\ outcome[callee].exc.site \in {"integrate:35", "integrate:37"}
              /\ \E k \in Tasks : outcome[callee].exc = futures[k].exc

C13_Witness ==
    /\ callee = "integrate_processes" /\ pc = "returned"
    /\ a > b /\ n_jobs > 1 /\ n_iter >= n_jobs
    /\ Len(futures) = n_jobs
    /\ ValueErrorRaised(callee)
    /\ outcome[callee].exc.site = "integrate:37"

SomeTaskUnfinished == \E k \in Tasks : ~Finished(futures[k])

\* C14: a dispatcher call has not returned while a task of it is
\* unfinished, even with the exception of another task in hand; and when
\* the workers keep running, so that every task finishes, every dispatcher
\* call returns.
C14_NoTimeout ==
    /\ []((InParallel /\ SomeTaskUnfinished) => pc # "returned")
    /\ (InParallel /\ pc # "returned") ~> (pc = "returned")

C14_Witness ==
    /\ InParallel /\ pc = "exit"
    /\ result.kind = "error"
    /\ \E k \in Tasks : futures[k].st = "raised"
    /\ \E k \in Tasks : futures[k].st = "running"

====
